---------------------------- MODULE Spec2Model ----------------------------
(***************************************************************************)
(* Model of gitdb's db/base.py: the CompoundDB router, which delegates     *)
(* object lookups to an ordered list of sub-databases and memoizes, per    *)
(* sha, the database that answered (the _db_cache).                        *)
(*                                                                         *)
(* Sub-databases are the ObjectDBR / CachingDB interfaces of the file:     *)
(* each holds a set of shas, answers has_object/info/stream/size/sha_iter  *)
(* for it, and (when it is a CachingDB) answers update_cache with a flag   *)
(* of its own choosing.                                                    *)
(***************************************************************************)
EXTENDS Integers, Sequences, FiniteSets, TLC

\* Number of sub-database instances that exist (registered or not).
NumBackends == 2

\* Number of distinct shas.
NumDigests == 2

Backends == 1..NumBackends
Digests == 1..NumDigests

\* "No database": a sha absent from _db_cache, or a failed _db_query.
NoDb == 0
\* "No sha": operations that take none.
NoSha == 0

\* Number of ObjectDBW instances.
NumWriters == 2

\* Number of distinct stream objects that can be installed.
NumStreams == 3

\* Number of pool threads that run a task.
NumWorkers == 2

\* Longest input a task's reader is created with.
MaxItems == 3

Writers == 1..NumWriters
Streams == 1..NumStreams
Workers == 1..NumWorkers

\* _ostream = None: no override, the default stream is used.
NoStream == 0

VARIABLES
    dbs,         \* CompoundDB._dbs: list of sub-databases, in insertion order
    db_cache,    \* CompoundDB._db_cache: sha -> database (NoDb: no entry)
    objects,     \* objects[b]: the shas sub-database b holds
    caching,     \* the sub-databases that are CachingDB instances
    last,        \* the latest call on the CompoundDB and what it returned
    stored,      \* history: shas ever held by a database while registered
    located,     \* history: sha -> database returned by the latest successful
                 \*          _db_query since the latest update_cache
    stale,       \* history: shas cached when update_cache ran, not queried since
    dirty,       \* history: a database's contents changed since update_cache
    ostream,     \* ostream[w]: ObjectDBW._ostream of writable database w
    task,        \* the *_async method whose task the pool runs ("none": none)
    input,       \* history: the shas the task's reader was created with
    reader,      \* the task's input channel: shas not yet taken by a worker
    out,         \* the task's output channel: items written so far
    thr,         \* thr[t]: where pool thread t is in fun(item) and its locals
    upd          \* the thread calling update_cache: where it is; history

\* The state of the CompoundDB and its sub-databases.
router == <<dbs, db_cache, objects, caching, last, stored, located, stale, dirty>>

\* The state the CompoundDB's synchronous calls leave alone.
others == <<ostream, task, input, reader, out, thr, upd>>

vars == <<router, others>>

Range(s) == {s[i] : i \in 1..Len(s)}

-----------------------------------------------------------------------------
(* Sub-databases: the ObjectDBR interface as its docstrings state it.      *)

\* ObjectDBR.has_object: True iff the sha is contained in the database.
DbHasObject(b, sha) == sha \in objects[b]

BadObject(sha) == [kind |-> "BadObject", db |-> NoDb, sha |-> sha]
NoObj == [kind |-> "None", db |-> NoDb, sha |-> NoSha]

\* ObjectDBR.info: the database's own OInfo for the sha, or BadObject.
DbInfo(b, sha) ==
    IF sha \in objects[b] THEN [kind |-> "OInfo", db |-> b, sha |-> sha]
    ELSE BadObject(sha)

\* ObjectDBR.stream: the database's own OStream for the sha, or BadObject.
DbStream(b, sha) ==
    IF sha \in objects[b] THEN [kind |-> "OStream", db |-> b, sha |-> sha]
    ELSE BadObject(sha)

\* ObjectDBR.size: amount of objects in the database.
DbSize(b) == Cardinality(objects[b])

\* ObjectDBR.sha_iter: every sha of the database, once (here in ascending
\* order of the sha).
RECURSIVE SortedSeq(_)
SortedSeq(S) ==
    IF S = {} THEN <<>>
    ELSE LET m == CHOOSE x \in S : \A y \in S : x <= y
         IN <<m>> \o SortedSeq(S \ {m})

DbShaIter(b) == SortedSeq(objects[b])

-----------------------------------------------------------------------------
(* CompoundDB                                                              *)

EmptyCache == [d \in Digests |-> NoDb]

\* ScanFrom with `return db` moved after the loop: when no database has the
\* sha, the loop variable (the last database) is returned.
RECURSIVE ScanFromLeakLoopVar(_, _)
ScanFromLeakLoopVar(i, sha) ==
    IF i > Len(dbs)
    THEN [db |-> IF Len(dbs) = 0 THEN NoDb ELSE dbs[Len(dbs)], calls |-> <<>>]
    ELSE IF DbHasObject(dbs[i], sha)
         THEN [db |-> dbs[i], calls |-> << <<dbs[i], TRUE>> >>]
         ELSE LET r == ScanFromLeakLoopVar(i + 1, sha)
              IN [db |-> r.db, calls |-> << <<dbs[i], FALSE>> >> \o r.calls]

\* ScanFrom without the early return: the last database that has the sha
\* wins.
RECURSIVE ScanFromLastMatch(_, _)
ScanFromLastMatch(i, sha) ==
    IF i > Len(dbs) THEN [db |-> NoDb, calls |-> <<>>]
    ELSE LET r == ScanFromLastMatch(i + 1, sha)
             hit == DbHasObject(dbs[i], sha)
         IN [db |-> IF r.db # NoDb THEN r.db ELSE IF hit THEN dbs[i] ELSE NoDb,
             calls |-> << <<dbs[i], hit>> >> \o r.calls]

\* The loop of _db_query from position i: the first database whose
\* has_object(sha) is true, and the has_object calls made, in order.
RECURSIVE ScanFrom(_, _)
ScanFrom(i, sha) ==
    IF i > Len(dbs) THEN [db |-> NoDb, calls |-> <<>>]
    ELSE IF DbHasObject(dbs[i], sha)
         THEN [db |-> dbs[i], calls |-> << <<dbs[i], TRUE>> >>]
         ELSE LET r == ScanFrom(i + 1, sha)
              IN [db |-> r.db, calls |-> << <<dbs[i], FALSE>> >> \o r.calls]

\* _db_query without `self._db_cache[sha] = db`.
DbQueryNoRecord(sha) ==
    IF db_cache[sha] # NoDb
    THEN [db |-> db_cache[sha], calls |-> <<>>, cache |-> db_cache]
    ELSE LET r == ScanFrom(1, sha)
         IN [db |-> r.db, calls |-> r.calls, cache |-> db_cache]

\* _db_query recording the database before asking it: the first database
\* is cached whether or not it has the sha.
DbQueryRecordFirst(sha) ==
    IF db_cache[sha] # NoDb
    THEN [db |-> db_cache[sha], calls |-> <<>>, cache |-> db_cache]
    ELSE LET r == ScanFrom(1, sha)
         IN [db |-> r.db, calls |-> r.calls,
             cache |-> IF Len(dbs) > 0 THEN [db_cache EXCEPT ![sha] = dbs[1]]
                       ELSE db_cache]

\* _db_query(sha): the database returned (NoDb: BadObject raised), the
\* has_object calls made, and the _db_cache afterwards.
DbQuery(sha) ==
    IF db_cache[sha] # NoDb
    THEN [db |-> db_cache[sha], calls |-> <<>>, cache |-> db_cache]
    ELSE LET r == ScanFrom(1, sha)
         IN IF r.db # NoDb
            THEN [db |-> r.db, calls |-> r.calls,
                  cache |-> [db_cache EXCEPT ![sha] = r.db]]
            ELSE [db |-> NoDb, calls |-> r.calls, cache |-> db_cache]

\* What a call leaves in `last`; fields an operation does not use keep
\* these defaults.
Obs(op) ==
    [op |-> op, sha |-> NoSha, force |-> FALSE, ok |-> FALSE, db |-> NoDb,
     obj |-> NoObj, n |-> 0, shas |-> <<>>, calls |-> <<>>, log |-> <<>>,
     yes |-> {}, wasStale |-> FALSE, tuple |-> <<>>,
     writer |-> 0, stream |-> NoStream, ret |-> NoStream]

QueryOps == {"has_object", "info", "stream"}

\* History kept by every call that runs _db_query(sha) with outcome q.
QueryHistory(sha, q) ==
    /\ located' = IF q.db # NoDb THEN [located EXCEPT ![sha] = q.db] ELSE located
    /\ stale' = stale \ {sha}
    /\ UNCHANGED <<stored, dirty>>

\* has_object(sha): True when _db_query returns, False when it raises.
HasObject(sha) ==
    LET q == DbQuery(sha)
    IN /\ db_cache' = q.cache
       /\ last' = [Obs("has_object") EXCEPT !.sha = sha, !.ok = (q.db # NoDb),
                                            !.db = q.db, !.calls = q.calls,
                                            !.wasStale = (sha \in stale)]
       /\ QueryHistory(sha, q)
       /\ UNCHANGED <<dbs, objects, caching, others>>

\* info(sha): _db_query(sha).info(sha); BadObject propagates.
Info(sha) ==
    LET q == DbQuery(sha)
    IN /\ db_cache' = q.cache
       /\ last' = [Obs("info") EXCEPT
                     !.sha = sha, !.ok = (q.db # NoDb), !.db = q.db,
                     !.calls = q.calls, !.wasStale = (sha \in stale),
                     !.obj = IF q.db # NoDb THEN DbInfo(q.db, sha)
                             ELSE BadObject(sha)]
       /\ QueryHistory(sha, q)
       /\ UNCHANGED <<dbs, objects, caching, others>>

\* stream(sha): _db_query(sha).stream(sha); BadObject propagates.
Stream(sha) ==
    LET q == DbQuery(sha)
    IN /\ db_cache' = q.cache
       /\ last' = [Obs("stream") EXCEPT
                     !.sha = sha, !.ok = (q.db # NoDb), !.db = q.db,
                     !.calls = q.calls, !.wasStale = (sha \in stale),
                     !.obj = IF q.db # NoDb THEN DbStream(q.db, sha)
                             ELSE BadObject(sha)]
       /\ QueryHistory(sha, q)
       /\ UNCHANGED <<dbs, objects, caching, others>>

\* reduce(lambda x,y: x+y, (db.size() for db in self._dbs), 0)
RECURSIVE SizeFrom(_, _)
SizeFrom(i, acc) ==
    IF i > Len(dbs) THEN acc ELSE SizeFrom(i + 1, acc + DbSize(dbs[i]))

\* size counting each sha once.
CompoundSizeDedup == Cardinality(UNION {objects[b] : b \in Range(dbs)})

CompoundSize == SizeFrom(1, 0)

Size ==
    /\ last' = [Obs("size") EXCEPT !.n = CompoundSize]
    /\ UNCHANGED <<dbs, db_cache, objects, caching, stored, located, stale,
                   dirty, others>>

\* chain(*(db.sha_iter() for db in self._dbs))
RECURSIVE ChainFrom(_)
ChainFrom(i) ==
    IF i > Len(dbs) THEN <<>> ELSE DbShaIter(dbs[i]) \o ChainFrom(i + 1)

\* sha_iter yielding each sha once, merged over the databases.
CompoundShaIterMerged == SortedSeq(UNION {objects[b] : b \in Range(dbs)})

CompoundShaIter == ChainFrom(1)

ShaIter ==
    /\ last' = [Obs("sha_iter") EXCEPT !.shas = CompoundShaIter]
    /\ UNCHANGED <<dbs, db_cache, objects, caching, stored, located, stale,
                   dirty, others>>

\* databases() returning the databases sorted instead of in list order.
CompoundDatabasesSorted == SortedSeq(Range(dbs))

\* tuple(self._dbs)
CompoundDatabases == dbs

Databases ==
    /\ last' = [Obs("databases") EXCEPT !.tuple = CompoundDatabases]
    /\ UNCHANGED <<dbs, db_cache, objects, caching, stored, located, stale,
                   dirty, others>>

\* ObjectDBR.__contains__(sha): `return self.has_obj`. No class of the file
\* defines has_obj, so the attribute lookup raises AttributeError; has_object
\* is never called.
AttributeError(sha) == [kind |-> "AttributeError", db |-> NoDb, sha |-> sha]

Contains(sha) ==
    /\ last' = [Obs("contains") EXCEPT !.sha = sha, !.obj = AttributeError(sha)]
    /\ UNCHANGED <<dbs, db_cache, objects, caching, stored, located, stale,
                   dirty, others>>

\* update_cache without `self._db_cache.clear()`.
KeptCache == db_cache

\* self._db_cache.clear()
ClearedCache == EmptyCache

\* isinstance(db, CachingDB)
IsCachingDB(b) == b \in caching

\* UpdateLoop with `stat = ...` for `stat |= ...`: the last CachingDB's
\* answer wins.
RECURSIVE UpdateLoopLastWins(_, _, _, _, _)
UpdateLoopLastWins(i, stat, log, force, yes) ==
    IF i > Len(dbs) THEN [stat |-> stat, log |-> log]
    ELSE IF IsCachingDB(dbs[i])
         THEN UpdateLoopLastWins(i + 1, dbs[i] \in yes,
                         Append(log, <<dbs[i], force, dbs[i] \in yes>>), force, yes)
         ELSE UpdateLoopLastWins(i + 1, stat, log, force, yes)

\* UpdateLoop leaving the loop at the first CachingDB that answers True.
RECURSIVE UpdateLoopShortCircuit(_, _, _, _, _)
UpdateLoopShortCircuit(i, stat, log, force, yes) ==
    IF i > Len(dbs) \/ stat THEN [stat |-> stat, log |-> log]
    ELSE IF IsCachingDB(dbs[i])
         THEN UpdateLoopShortCircuit(i + 1, stat \/ (dbs[i] \in yes),
                         Append(log, <<dbs[i], force, dbs[i] \in yes>>), force, yes)
         ELSE UpdateLoopShortCircuit(i + 1, stat, log, force, yes)

\* The loop of update_cache from position i with stat so far: each
\* CachingDB's update_cache(force) is called and its answer (True iff the
\* database is in yes) is or-ed into stat; log lists the calls made.
RECURSIVE UpdateLoop(_, _, _, _, _)
UpdateLoop(i, stat, log, force, yes) ==
    IF i > Len(dbs) THEN [stat |-> stat, log |-> log]
    ELSE IF IsCachingDB(dbs[i])
         THEN UpdateLoop(i + 1, stat \/ (dbs[i] \in yes),
                         Append(log, <<dbs[i], force, dbs[i] \in yes>>), force, yes)
         ELSE UpdateLoop(i + 1, stat, log, force, yes)

\* History kept by update_cache.
UpdateHistory ==
    /\ stale' = stale \cup {d \in Digests : db_cache[d] # NoDb}
    /\ located' = EmptyCache
    /\ dirty' = FALSE
    /\ UNCHANGED <<dbs, objects, caching, stored, others>>

\* update_cache clearing _db_cache only when a database reported a change.
UpdateCacheClearIfChanged(force, yes) ==
    LET r == UpdateLoop(1, FALSE, <<>>, force, yes)
    IN /\ db_cache' = IF r.stat THEN ClearedCache ELSE db_cache
       /\ last' = [Obs("update_cache") EXCEPT !.force = force, !.ok = r.stat,
                                              !.log = r.log, !.yes = yes]
       /\ UpdateHistory

\* update_cache clearing _db_cache only when forced.
UpdateCacheClearIfForced(force, yes) ==
    LET r == UpdateLoop(1, FALSE, <<>>, force, yes)
    IN /\ db_cache' = IF force THEN ClearedCache ELSE db_cache
       /\ last' = [Obs("update_cache") EXCEPT !.force = force, !.ok = r.stat,
                                              !.log = r.log, !.yes = yes]
       /\ UpdateHistory

\* update_cache(force); yes is the set of registered sub-databases whose
\* own update_cache answers True when called.
UpdateCache(force, yes) ==
    LET r == UpdateLoop(1, FALSE, <<>>, force, yes)
    IN /\ db_cache' = ClearedCache
       /\ last' = [Obs("update_cache") EXCEPT !.force = force, !.ok = r.stat,
                                              !.log = r.log, !.yes = yes]
       /\ UpdateHistory

-----------------------------------------------------------------------------
(* ObjectDBW                                                               *)

\* set_ostream returning the stream it was given.
SetOstreamResultNew(w, stream) == stream

\* cstream = self._ostream, read before the assignment, is what set_ostream
\* returns.
SetOstreamResult(w, stream) == ostream[w]

\* set_ostream(stream) on writable database w.
SetOstream(w, stream) ==
    /\ ostream' = [ostream EXCEPT ![w] = stream]
    /\ last' = [Obs("set_ostream") EXCEPT !.writer = w, !.stream = stream,
                                         !.ret = SetOstreamResult(w, stream)]
    /\ UNCHANGED <<dbs, db_cache, objects, caching, stored, located, stale, dirty,
                   task, input, reader, out, thr, upd>>

\* ostream() on writable database w.
Ostream(w) ==
    /\ last' = [Obs("ostream") EXCEPT !.writer = w, !.ret = ostream[w]]
    /\ UNCHANGED <<dbs, db_cache, objects, caching, stored, located, stale, dirty,
                   others>>

-----------------------------------------------------------------------------
(* has_object_async / info_async / stream_async: a ChannelThreadTask that  *)
(* applies has_object / info / stream to every sha of a reader, run by the *)
(* threads of the pool.  A thread executes _db_query statement by          *)
(* statement; other threads run between its statements.                    *)

AsyncOps == {"has_object_async", "info_async", "stream_async"}

Idle == [pc |-> "idle", sha |-> NoSha, i |-> 0, db |-> NoDb, pre |-> FALSE]

\* A pool thread takes the next sha from the task's reader and calls fun.
TakeItem(t) ==
    /\ thr[t].pc = "idle"
    /\ reader # <<>>
    /\ thr' = [thr EXCEPT ![t] = [Idle EXCEPT !.pc = "try", !.sha = Head(reader)]]
    /\ reader' = Tail(reader)
    /\ UNCHANGED <<router, ostream, task, input, out, upd>>

\* try: return self._db_cache[sha]; except KeyError: pass
QueryTry(t) ==
    /\ thr[t].pc = "try"
    /\ thr' = [thr EXCEPT ![t] =
                 IF db_cache[thr[t].sha] # NoDb
                 THEN [@ EXCEPT !.pc = "ret", !.db = db_cache[thr[t].sha]]
                 ELSE [@ EXCEPT !.pc = "scan", !.i = 1]]
    /\ UNCHANGED <<router, ostream, task, input, reader, out, upd>>

\* The scan continuing after a database answered True.
QueryScanNoStop(t) ==
    /\ thr[t].pc = "scan"
    /\ thr' = [thr EXCEPT ![t] =
                 IF thr[t].i > Len(dbs)
                 THEN [@ EXCEPT !.pc = IF thr[t].db # NoDb THEN "store" ELSE "raise"]
                 ELSE IF DbHasObject(dbs[thr[t].i], thr[t].sha)
                      THEN [@ EXCEPT !.db = dbs[thr[t].i], !.i = @ + 1,
                                     !.pre = upd.pc \in {"idle", "clear"}]
                      ELSE [@ EXCEPT !.i = @ + 1]]
    /\ UNCHANGED <<router, ostream, task, input, reader, out, upd>>

\* One turn of `for db in self._dbs: if db.has_object(sha):`; the loop
\* running out raises BadObject(sha).  pre notes whether the answer True was
\* obtained before update_cache cleared the cache.
QueryScan(t) ==
    /\ thr[t].pc = "scan"
    /\ thr' = [thr EXCEPT ![t] =
                 IF thr[t].i > Len(dbs)
                 THEN [@ EXCEPT !.pc = "raise"]
                 ELSE IF DbHasObject(dbs[thr[t].i], thr[t].sha)
                      THEN [@ EXCEPT !.pc = "store", !.db = dbs[thr[t].i],
                                     !.pre = upd.pc \in {"idle", "clear"}]
                      ELSE [@ EXCEPT !.i = @ + 1]]
    /\ UNCHANGED <<router, ostream, task, input, reader, out, upd>>

\* self._db_cache[sha] = db; return db
QueryStore(t) ==
    /\ thr[t].pc = "store"
    /\ db_cache' = [db_cache EXCEPT ![thr[t].sha] = thr[t].db]
    /\ upd' = [upd EXCEPT !.pre = IF thr[t].pre THEN @ \cup {thr[t].sha}
                                  ELSE @ \ {thr[t].sha}]
    /\ thr' = [thr EXCEPT ![t].pc = "ret"]
    /\ UNCHANGED <<dbs, objects, caching, last, stored, located, stale, dirty,
                   ostream, task, input, reader, out>>

\* has_object_async's fun yielding only the flag's default.
HasObjectAsyncFunAlwaysTrue(sha, found) ==
    [kind |-> "pair", db |-> NoDb, sha |-> sha, ok |-> TRUE]

\* lambda sha: (sha, self.has_object(sha))
HasObjectAsyncFun(sha, found) ==
    [kind |-> "pair", db |-> NoDb, sha |-> sha, ok |-> found]

\* info / stream answering with an object also for a sha no database holds.
LookupAsyncFunNoRaise(op, db, sha) ==
    [kind |-> IF op = "info_async" THEN "OInfo" ELSE "OStream",
     db |-> db, sha |-> sha, ok |-> TRUE]

\* self.info / self.stream applied to the sha once _db_query returned db
\* (NoDb: it raised): the database's answer, or the BadObject raised.
LookupAsyncFun(op, db, sha) ==
    LET r == IF db = NoDb THEN BadObject(sha)
             ELSE IF op = "info_async" THEN DbInfo(db, sha)
             ELSE DbStream(db, sha)
    IN [kind |-> r.kind, db |-> r.db, sha |-> r.sha, ok |-> r.kind # "BadObject"]

\* The task giving up on an item whose fun raised: nothing is written.
OnExceptionDrop(op, sha) == <<>>

\* What the task writes for an item whose fun raised: the exception is
\* captured in the item's failure carrier.
OnException(op, sha) ==
    << [kind |-> IF op = "info_async" THEN "InvalidOInfo" ELSE "InvalidOStream",
        db |-> NoDb, sha |-> sha, ok |-> FALSE] >>

\* What the task writes to its output channel for one input item.
TaskOutput(op, th) ==
    IF op = "has_object_async"
    THEN << HasObjectAsyncFun(th.sha, th.pc = "ret") >>
    ELSE LET r == LookupAsyncFun(op, IF th.pc = "ret" THEN th.db ELSE NoDb, th.sha)
         IN IF r.ok THEN <<r>> ELSE OnException(op, th.sha)

\* fun returns (or raises) and the task writes the item's result.
Finish(t) ==
    /\ thr[t].pc \in {"ret", "raise"}
    /\ out' = out \o TaskOutput(task, thr[t])
    /\ thr' = [thr EXCEPT ![t] = Idle]
    /\ UNCHANGED <<router, ostream, task, input, reader, upd>>

\* Another thread calls update_cache.
UpdCall ==
    /\ upd.pc = "idle"
    /\ upd' = [upd EXCEPT !.pc = "clear"]
    /\ UNCHANGED <<router, ostream, task, input, reader, out, thr>>

\* self._db_cache.clear()
UpdClear ==
    /\ upd.pc = "clear"
    /\ db_cache' = ClearedCache
    /\ upd' = [pc |-> "loop", pre |-> {}]
    /\ UNCHANGED <<dbs, objects, caching, last, stored, located, stale, dirty,
                   ostream, task, input, reader, out, thr>>

\* The loop over the sub-databases; update_cache returns.
UpdLoop ==
    /\ upd.pc = "loop"
    /\ upd' = [upd EXCEPT !.pc = "done"]
    /\ UNCHANGED <<router, ostream, task, input, reader, out, thr>>

\* No writable database has an override, no task runs, no thread is busy.
OthersIdle ==
    /\ ostream = [w \in Writers |-> NoStream]
    /\ task = "none"
    /\ input = <<>>
    /\ reader = <<>>
    /\ out = <<>>
    /\ thr = [t \in Workers |-> Idle]
    /\ upd = [pc |-> "idle", pre |-> {}]

-----------------------------------------------------------------------------
(* The environment: registration of sub-databases (subclasses append to    *)
(* the lazily created _dbs list) and changes of a sub-database's contents. *)

Register(b) ==
    /\ b \notin Range(dbs)
    /\ dbs' = Append(dbs, b)
    /\ stored' = stored \cup objects[b]
    /\ last' = Obs("register")
    /\ UNCHANGED <<db_cache, objects, caching, located, stale, dirty, others>>

AddObject(b, sha) ==
    /\ sha \notin objects[b]
    /\ objects' = [objects EXCEPT ![b] = @ \cup {sha}]
    /\ stored' = IF b \in Range(dbs) THEN stored \cup {sha} ELSE stored
    /\ dirty' = TRUE
    /\ last' = Obs("add_object")
    /\ UNCHANGED <<dbs, db_cache, caching, located, stale, others>>

RemoveObject(b, sha) ==
    /\ sha \in objects[b]
    /\ objects' = [objects EXCEPT ![b] = @ \ {sha}]
    /\ dirty' = TRUE
    /\ last' = Obs("remove_object")
    /\ UNCHANGED <<dbs, db_cache, caching, stored, located, stale, others>>

-----------------------------------------------------------------------------

\* _set_cache_: _dbs = list(), _db_cache = dict(); the sub-databases exist
\* with no objects yet, each a CachingDB or not.
Init ==
    /\ dbs = <<>>
    /\ db_cache = EmptyCache
    /\ objects = [b \in Backends |-> {}]
    /\ caching \in SUBSET Backends
    /\ last = Obs("init")
    /\ stored = {}
    /\ located = EmptyCache
    /\ stale = {}
    /\ dirty = FALSE
    /\ OthersIdle

Next ==
    \/ \E b \in Backends : Register(b)
    \/ \E b \in Backends, sha \in Digests : AddObject(b, sha)
    \/ \E b \in Backends, sha \in Digests : RemoveObject(b, sha)
    \/ \E sha \in Digests : HasObject(sha)
    \/ \E sha \in Digests : Info(sha)
    \/ \E sha \in Digests : Stream(sha)
    \/ Size
    \/ ShaIter
    \/ Databases
    \/ \E sha \in Digests : Contains(sha)
    \/ \E force \in BOOLEAN, yes \in SUBSET Range(dbs) : UpdateCache(force, yes)

Spec == Init /\ [][Next]_vars

\* ObjectDBW instances alone: __init__ sets _ostream = None.
InitW == Init /\ caching = {}

NextW ==
    \/ \E w \in Writers, stream \in Streams \cup {NoStream} : SetOstream(w, stream)
    \/ \E w \in Writers : Ostream(w)

SpecW == InitW /\ [][NextW]_vars

\* The lists over S without repetition, of every length.
InjectiveSeqs(S) ==
    {q \in UNION {[1..n -> S] : n \in 0..Cardinality(S)} :
        \A i, j \in 1..Len(q) : i # j => q[i] # q[j]}

SeqsUpTo(S, n) == UNION {[1..k -> S] : k \in 0..n}

\* A CompoundDB with its databases registered and filled, its cache still
\* empty, on which one *_async method was just called with a reader.
InitBulk ==
    /\ dbs \in InjectiveSeqs(Backends)
    /\ db_cache = EmptyCache
    /\ objects \in [Backends -> SUBSET Digests]
    /\ caching = {}
    /\ last = Obs("init")
    /\ stored = {}
    /\ located = EmptyCache
    /\ stale = {}
    /\ dirty = FALSE
    /\ ostream = [w \in Writers |-> NoStream]
    /\ task \in AsyncOps
    /\ input \in SeqsUpTo(Digests, MaxItems)
    /\ reader = input
    /\ out = <<>>
    /\ thr = [t \in Workers |-> Idle]
    /\ upd = [pc |-> "idle", pre |-> {}]

NextBulk ==
    \/ \E t \in Workers : TakeItem(t)
    \/ \E t \in Workers : QueryTry(t)
    \/ \E t \in Workers : QueryScan(t)
    \/ \E t \in Workers : QueryStore(t)
    \/ \E t \in Workers : Finish(t)

\* The pool's threads alone: contents fixed, no update_cache.
SpecBulk == InitBulk /\ [][NextBulk]_vars

\* The same, every thread of the pool being scheduled again and again.
LiveBulk == SpecBulk /\ \A t \in Workers :
    WF_vars(TakeItem(t) \/ QueryTry(t) \/ QueryScan(t) \/ QueryStore(t) \/ Finish(t))

NextRace ==
    \/ NextBulk
    \/ UpdCall
    \/ UpdClear
    \/ UpdLoop

\* The pool's threads and one thread calling update_cache.
SpecRace == InitBulk /\ [][NextRace]_vars

-----------------------------------------------------------------------------
(* Properties                                                              *)

\* Positions of the registered databases that hold the sha now.
Holders(sha) == {i \in 1..Len(dbs) : sha \in objects[dbs[i]]}

\* The first registered database, in registration order, that holds the sha
\* now (NoDb: none does): what a router without a cache answers.
FirstHolder(sha) ==
    IF Holders(sha) = {} THEN NoDb
    ELSE dbs[CHOOSE i \in Holders(sha) : \A j \in Holders(sha) : i <= j]

Cached == {d \in Digests : db_cache[d] # NoDb}

\* C1: for a sha that no registered database ever held, has_object returns
\* False and info / stream raise BadObject(sha), whatever calls came before.
C1_NeverStoredNotFound ==
    (last.op \in QueryOps /\ last.sha \notin stored) =>
        /\ last.ok = FALSE
        /\ last.db = NoDb
        /\ last.op \in {"info", "stream"} => last.obj = BadObject(last.sha)

\* C1 witness: info of a never-stored sha scanned every registered database
\* while another sha is stored.
C1_Witness ==
    /\ last.op = "info"
    /\ last.sha \notin stored
    /\ stored # {}
    /\ Len(dbs) >= 2
    /\ Len(last.calls) = Len(dbs)

\* C2: on a cache miss for a sha that some registered database holds,
\* _db_query returns the first such database in registration order and
\* records exactly that entry, every other entry staying as it was; info
\* and stream return that database's own info(sha) / stream(sha).
C2_MissFirstMatch ==
    [][\A d \in Digests :
         (last'.op \in QueryOps /\ last'.sha = d /\ db_cache[d] = NoDb
            /\ Holders(d) # {}) =>
             LET b == FirstHolder(d)
             IN /\ last'.db = b
                /\ last'.ok
                /\ db_cache' = [db_cache EXCEPT ![d] = b]
                /\ last'.op = "info" =>
                     last'.obj = [kind |-> "OInfo", db |-> b, sha |-> d]
                /\ last'.op = "stream" =>
                     last'.obj = [kind |-> "OStream", db |-> b, sha |-> d]
      ]_vars

\* C2 witness: a miss answered by the second database scanned, while
\* another sha is cached for the first.
C2_Witness ==
    /\ last.op = "stream"
    /\ Len(last.calls) = 2
    /\ last.db = dbs[2]
    /\ db_cache[last.sha] = dbs[2]
    /\ \E d \in Digests : d # last.sha /\ db_cache[d] = dbs[1]

\* C3: once _db_query(d) has succeeded, every later _db_query(d) before the
\* next update_cache calls has_object on no database and returns the same
\* database.
C3_CacheHitNoRescan ==
    [][\A d \in Digests :
         (located[d] # NoDb /\ last'.op \in QueryOps /\ last'.sha = d) =>
             /\ last'.calls = <<>>
             /\ last'.db = located[d]
      ]_vars

\* C3 witness: a query answered without any has_object call, by a database
\* that no longer holds the sha.
C3_Witness ==
    /\ last.op \in QueryOps
    /\ last.calls = <<>>
    /\ last.db # NoDb
    /\ last.sha \notin objects[last.db]

\* C4: the first _db_query(d) after update_cache, for a sha that was cached
\* when update_cache ran, calls has_object on at least one database.
C4_RescanAfterUpdate ==
    [][\A d \in stale :
         (last'.op \in QueryOps /\ last'.sha = d) => Len(last'.calls) >= 1
      ]_vars

\* C4 witness: the first query of a sha since the update_cache that dropped
\* its entry; every database was asked and none holds it any more.
C4_Witness ==
    /\ last.op \in QueryOps
    /\ last.wasStale
    /\ Len(dbs) >= 2
    /\ Len(last.calls) = Len(dbs)
    /\ ~last.ok

\* C5: update_cache leaves _db_cache empty, forced or not, whatever it
\* returns.
C5_UpdateClearsCache ==
    last.op = "update_cache" => Cached = {}

\* C5 witness: an unforced update_cache that returned False after shas had
\* been cached.
C5_Witness ==
    /\ last.op = "update_cache"
    /\ ~last.force
    /\ ~last.ok
    /\ stale # {}
    /\ Cached = {}

\* C6: update_cache returns the logical or of the answers of the registered
\* databases that are CachingDB instances; the others do not count, and
\* with no CachingDB registered the result is False.
C6_UpdateReturnsOr ==
    last.op = "update_cache" =>
        last.ok = (\E b \in Range(dbs) \cap caching : b \in last.yes)

\* C6 witness: update_cache returned True, the first registered CachingDB
\* having answered True and a later one False.
C6_Witness ==
    /\ last.op = "update_cache"
    /\ last.ok
    /\ Len(last.log) = 2
    /\ last.log[1][3]
    /\ ~last.log[2][3]

\* C7: when update_cache ran after the latest change of any database's
\* contents, every has_object / info / stream result is the one a router
\* without a cache gives: the answer of the first registered database that
\* holds the sha.
C7_CacheTransparent ==
    (last.op \in QueryOps /\ ~dirty) =>
        LET b == FirstHolder(last.sha)
        IN /\ last.ok = (b # NoDb)
           /\ last.op = "info" =>
                last.obj = IF b # NoDb THEN DbInfo(b, last.sha)
                           ELSE BadObject(last.sha)
           /\ last.op = "stream" =>
                last.obj = IF b # NoDb THEN DbStream(b, last.sha)
                           ELSE BadObject(last.sha)

\* C7 witness: contents changed, update_cache dropped entries, and since
\* then an info is answered from a newly written entry.
C7_Witness ==
    /\ last.op = "info"
    /\ ~dirty
    /\ stale # {}
    /\ last.calls = <<>>
    /\ last.obj.kind = "OInfo"

\* C8: a cache entry d -> b appears or changes only in a _db_query(d) whose
\* last has_object call was b.has_object(d) answering True, b being
\* registered and holding d; and every cached database is registered.
C8_CacheInsertion ==
    /\ [](\A d \in Cached : db_cache[d] \in Range(dbs))
    /\ [][\A d \in Digests :
            (db_cache'[d] # NoDb /\ db_cache'[d] # db_cache[d]) =>
                /\ last'.op \in QueryOps
                /\ last'.sha = d
                /\ Len(last'.calls) >= 1
                /\ last'.calls[Len(last'.calls)] = <<db_cache'[d], TRUE>>
                /\ db_cache'[d] \in Range(dbs)
                /\ d \in objects[db_cache'[d]]
         ]_vars

\* C8 witness: the latest call wrote an entry after one database answered
\* False and the next True.
C8_Witness ==
    /\ last.op = "has_object"
    /\ Len(dbs) >= 2
    /\ last.calls = << <<dbs[1], FALSE>>, <<dbs[2], TRUE>> >>
    /\ db_cache[last.sha] = dbs[2]

\* C9: size() is the number of (database, sha) pairs over the registered
\* databases: the sum of their sizes, a sha held by two databases counted
\* twice, and 0 with no database.
C9_SizeIsSum ==
    last.op = "size" =>
        last.n = Cardinality({p \in Backends \X Digests :
                                p[1] \in Range(dbs) /\ p[2] \in objects[p[1]]})

\* C9 witness: size() with a sha held by two registered databases.
C9_Witness ==
    /\ last.op = "size"
    /\ Len(dbs) = 2
    /\ objects[dbs[1]] \cap objects[dbs[2]] # {}
    /\ last.n > Cardinality(UNION {objects[b] : b \in Range(dbs)})

\* Number of shas yielded by the databases registered before position i.
RECURSIVE Offset(_)
Offset(i) == IF i <= 1 THEN 0 ELSE Offset(i - 1) + Cardinality(objects[dbs[i - 1]])

\* C10: sha_iter() yields, database by database in registration order, each
\* database's own sha_iter() sequence, and nothing else; shas held by
\* several databases are yielded once per database.
C10_ShaIterIsConcatenation ==
    last.op = "sha_iter" =>
        /\ Len(last.shas) = Offset(Len(dbs) + 1)
        /\ \A i \in 1..Len(dbs) :
             SubSeq(last.shas, Offset(i) + 1, Offset(i + 1)) = DbShaIter(dbs[i])

\* C10 witness: sha_iter() yielding a sha twice and out of ascending order.
C10_Witness ==
    /\ last.op = "sha_iter"
    /\ Len(dbs) = 2
    /\ Len(last.shas) >= 3
    /\ \E i \in 1..(Len(last.shas) - 1) : last.shas[i] > last.shas[i + 1]
    /\ \E i, j \in 1..Len(last.shas) : i # j /\ last.shas[i] = last.shas[j]

\* Number of databases a scan for the sha asks: up to and including the
\* first holder, or all of them when none holds it.
ScanLength(sha) ==
    IF Holders(sha) = {} THEN Len(dbs)
    ELSE CHOOSE i \in Holders(sha) : \A j \in Holders(sha) : i <= j

\* C14: on a cache miss _db_query asks the databases in registration order,
\* each at most once, and stops at the first that answers True: the calls
\* are exactly dbs[1], ..., dbs[k] with k the position of the first holder
\* (all databases when there is none), every answer but the k-th False.
C14_ScanOrderStopsAtFirst ==
    [][\A d \in Digests :
         (last'.op \in QueryOps /\ last'.sha = d /\ db_cache[d] = NoDb) =>
             /\ Len(last'.calls) = ScanLength(d)
             /\ \A i \in 1..Len(last'.calls) :
                  /\ last'.calls[i][1] = dbs[i]
                  /\ last'.calls[i][2] = (d \in objects[dbs[i]])
                  /\ last'.calls[i][2] => i = Len(last'.calls)
      ]_vars

\* C14 witness: both registered databases hold the sha and only the first
\* was asked.
C14_Witness ==
    /\ last.op \in QueryOps
    /\ Len(dbs) = 2
    /\ last.sha \in objects[dbs[1]] \cap objects[dbs[2]]
    /\ last.calls = << <<dbs[1], TRUE>> >>

\* C15: a _db_query that raises BadObject leaves _db_cache as it was and
\* has_object then returns False; and has_object of a sha that has no entry
\* and that a registered database holds returns True, whether or not
\* update_cache ran since the sha was added.
C15_FailedQueryNotCached ==
    [][\A d \in Digests :
         (last'.op \in QueryOps /\ last'.sha = d) =>
             /\ last'.db = NoDb =>
                  /\ db_cache' = db_cache
                  /\ db_cache'[d] = NoDb
                  /\ ~last'.ok
             /\ (last'.op = "has_object" /\ db_cache[d] = NoDb /\ Holders(d) # {})
                  => last'.ok
      ]_vars

\* C15 witness: has_object found a sha by scanning although contents changed
\* and update_cache never ran since, no entry having been recorded for it.
C15_Witness ==
    /\ last.op = "has_object"
    /\ last.ok
    /\ dirty
    /\ Len(last.calls) = 2
    /\ \A d \in Digests : d # last.sha => db_cache[d] = NoDb
    /\ stale = {}

\* The registered CachingDB instances in registration order.
RECURSIVE CachingFrom(_)
CachingFrom(i) ==
    IF i > Len(dbs) THEN <<>>
    ELSE (IF dbs[i] \in caching THEN <<dbs[i]>> ELSE <<>>) \o CachingFrom(i + 1)

\* C16: update_cache(force) calls update_cache(force) once on every
\* registered CachingDB, in registration order, also after one of them
\* answered True, and on no other database.
C16_UpdateCallsEachCachingOnce ==
    last.op = "update_cache" =>
        /\ Len(last.log) = Len(CachingFrom(1))
        /\ \A i \in 1..Len(last.log) :
             /\ last.log[i][1] = CachingFrom(1)[i]
             /\ last.log[i][2] = last.force
             /\ last.log[i][3] = (last.log[i][1] \in last.yes)

\* C16 witness: a forced update_cache called both registered CachingDBs
\* although the first had answered True.
C16_Witness ==
    /\ last.op = "update_cache"
    /\ last.force
    /\ Len(last.log) = 2
    /\ last.log[1][3]
    /\ last.log[2][3]

CompoundOps ==
    QueryOps \cup {"size", "sha_iter", "databases", "update_cache"}

\* C19: has_object, info, stream, size, sha_iter, databases and
\* update_cache leave _dbs as it is; databases() returns _dbs in order;
\* size, sha_iter and databases leave _db_cache as it is; and _db_cache
\* changes only by a query adding the entry of its sha or by update_cache
\* emptying it.
C19_Frame ==
    [][/\ last'.op \in CompoundOps => dbs' = dbs
       /\ last'.op = "databases" => last'.tuple = dbs
       /\ last'.op \in {"size", "sha_iter", "databases"} => db_cache' = db_cache
       /\ db_cache' # db_cache =>
            \/ /\ last'.op \in QueryOps
               /\ db_cache[last'.sha] = NoDb
               /\ db_cache'[last'.sha] # NoDb
               /\ \A d \in Digests : d # last'.sha => db_cache'[d] = db_cache[d]
            \/ /\ last'.op = "update_cache"
               /\ db_cache' = EmptyCache
      ]_vars

\* C19 witness: databases() returned the databases in an order that is not
\* ascending while shas are cached.
C19_Witness ==
    /\ last.op = "databases"
    /\ Len(last.tuple) = 2
    /\ last.tuple[1] > last.tuple[2]
    /\ Cached # {}

\* C20 (as claimed): `sha in db` returns what has_object(sha) returns: it
\* raises nothing and its value is that of has_object.
C20_ContainsIsHasObject ==
    last.op = "contains" =>
        /\ last.obj.kind = "None"
        /\ last.ok = (DbQuery(last.sha).db # NoDb)

\* Every pool thread is back from fun and the reader is exhausted.
AllReturned == reader = <<>> /\ \A t \in Workers : thr[t].pc = "idle"

Count(q, x) == Cardinality({i \in 1..Len(q) : q[i] = x})

\* q and r hold the same items the same number of times, in any order.
SameItems(q, r) ==
    /\ Len(q) = Len(r)
    /\ \A x \in Range(q) \cup Range(r) : Count(q, x) = Count(r, x)

\* What info(sha) / stream(sha) called alone gives for each input, a raised
\* BadObject being carried by InvalidOInfo / InvalidOStream.
AloneLookup(op, sha) ==
    LET db == ScanFrom(1, sha).db
    IN IF db = NoDb
       THEN [kind |-> IF op = "info_async" THEN "InvalidOInfo" ELSE "InvalidOStream",
             db |-> NoDb, sha |-> sha, ok |-> FALSE]
       ELSE [kind |-> IF op = "info_async" THEN "OInfo" ELSE "OStream",
             db |-> db, sha |-> sha, ok |-> TRUE]

Failing == {i \in 1..Len(input) : ScanFrom(1, input[i]).db = NoDb}

\* C11: info_async / stream_async over N shas of which K raise in info /
\* stream: the output eventually holds, and then keeps, exactly N items, K of
\* them InvalidOInfo / InvalidOStream for the failing shas and N-K the
\* values of the others, in any order; a failing sha stops neither the task
\* nor the other items.
C11_BulkFailuresTagged ==
    (task \in {"info_async", "stream_async"}) =>
        /\ [](Len(out) <= Len(input))
        /\ [](AllReturned =>
                /\ Len(out) = Len(input)
                /\ Cardinality({j \in 1..Len(out) : ~out[j].ok}) = Cardinality(Failing)
                /\ SameItems(out, [i \in 1..Len(input) |-> AloneLookup(task, input[i])]))
        /\ <>[]AllReturned

\* Three shas were read, the first one failed and was written first, and a
\* later one succeeded.
C11_Witness ==
    /\ task \in {"info_async", "stream_async"}
    /\ AllReturned
    /\ Len(input) = 3
    /\ Len(out) = 3
    /\ ~out[1].ok
    /\ out[1].kind \in {"InvalidOInfo", "InvalidOStream"}
    /\ \E j \in 2..3 : out[j].ok /\ out[j].kind \in {"OInfo", "OStream"}

\* C12: has_object_async over a reader of N shas eventually has written
\* exactly N pairs (sha, has_object(sha)), one per input item, in any order:
\* no input is dropped or written twice.
C12_HasBulkPublishesAll ==
    (task = "has_object_async") =>
        /\ [](\A x \in Range(out) :
                Count(out, x) <= Count(input, x.sha))
        /\ [](AllReturned =>
                SameItems(out, [i \in 1..Len(input) |->
                    [kind |-> "pair", db |-> NoDb, sha |-> input[i],
                     ok |-> ScanFrom(1, input[i]).db # NoDb]]))
        /\ <>[]AllReturned

\* All pairs were written, in an order that is not the order of the input,
\* some with True and some with False.
C12_Witness ==
    /\ task = "has_object_async"
    /\ AllReturned
    /\ Len(input) = 3
    /\ Len(out) = 3
    /\ \E j \in 1..3 : out[j].sha # input[j]
    /\ \E j, k \in 1..3 : out[j].ok /\ ~out[k].ok

C17_NoPreClearEntry ==
    (upd.pc = "done" /\ \A t \in Workers : thr[t].pc = "idle") =>
        \A d \in Cached : d \notin upd.pre

\* C18: with the contents fixed and no update_cache, whatever the threads'
\* interleaving, a _db_query returns the database it returns when run alone
\* (the first holder in registration order), raises BadObject exactly when no
\* database holds the sha, and every cache entry is its sha's first holder.
C18_ConcurrentQueriesAgree ==
    /\ \A t \in Workers :
          /\ thr[t].pc = "ret" =>
                thr[t].db # NoDb /\ thr[t].db = ScanFrom(1, thr[t].sha).db
          /\ thr[t].pc = "raise" => ScanFrom(1, thr[t].sha).db = NoDb
    /\ \A d \in Cached : db_cache[d] = FirstHolder(d)

\* Two threads looked up the same sha at the same time: both missed the
\* cache and scanned; one has written its entry and returned, the other is
\* about to write; the sha is held by both databases.
C18_Witness ==
    /\ \E t, u \in Workers :
          /\ t # u
          /\ thr[t].sha = thr[u].sha
          /\ thr[t].pc = "ret"
          /\ thr[u].pc = "store"
          /\ Cardinality(Holders(thr[t].sha)) = 2

=============================================================================
